---- MODULE Spec2Model ----
(***************************************************************************)
(* okta-mcp-server: the tool-dispatch runtime (discoverTools,              *)
(* transformTools, the ListTools / CallTool request handlers), the         *)
(* multi-session SSE transport adapter (GET /sse, POST /messages) and the  *)
(* single-stream mode of index.js, and the credential stores of            *)
(* lib/credentials.js, as state machines.                                  *)
(***************************************************************************)
EXTENDS Integers, Sequences, FiniteSets, TLC

VARIABLES
    toolPaths,    \* the registry: ordered module paths (tools/paths.js)
    loaded,       \* per registry index: "pending" or the settled load promise
    discovery,    \* "loading" | "done" | "threw"  (discoverTools)
    tools,        \* the handler table discoverTools returned
    listing,      \* what the last ListTools request returned
    call,         \* the CallTool request being handled and its outcome
    transports,   \* run(): const transports = {}  (own properties)
    servers,      \* run(): const servers = {}     (own properties)
    sessions,     \* per session id: the GET /sse handler and its close listener
    post,         \* the POST /messages request being handled and its response
    completion,   \* the registry indices in the order their loads settled
    http,         \* the HTTP request passing through the Express middleware
    store,        \* the credential stores: keychain, config file, environment
    proc,         \* the server process: "stopped" | "running" | "exited"
    op,           \* the last credential operation and what it returned
    stdio,        \* single-stream mode: the server instance and the SIGINT listener
    deliveries    \* the POSTs in arrival order, and the order of their handoffs

dispatchVars == <<toolPaths, loaded, discovery, tools, listing, call>>
sseVars == <<transports, servers, sessions, post>>
credVars == <<store, proc, op>>
modeVars == <<stdio, deliveries>>
vars == <<toolPaths, loaded, discovery, tools, listing, call,
          transports, servers, sessions, post,
          completion, http, store, proc, op, stdio, deliveries>>

(***************************************************************************)
(* Bounds                                                                  *)
(***************************************************************************)
MaxRegistry == 2
MaxSessions == 2

(***************************************************************************)
(* JSON values and JSON.stringify(value, null, 2)                          *)
(***************************************************************************)
JNull == [t |-> "null", b |-> FALSE, n |-> 0, s |-> "", kids |-> <<>>]
JBool(x) == [t |-> "bool", b |-> x, n |-> 0, s |-> "", kids |-> <<>>]
JNum(x) == [t |-> "num", b |-> FALSE, n |-> x, s |-> "", kids |-> <<>>]
JStr(x) == [t |-> "str", b |-> FALSE, n |-> 0, s |-> x, kids |-> <<>>]
KV(key, val) == [k |-> key, v |-> val]
JArr(items) ==
    [t |-> "arr", b |-> FALSE, n |-> 0, s |-> "",
     kids |-> [i \in 1..Len(items) |-> KV("", items[i])]]
JObj(members) == [t |-> "obj", b |-> FALSE, n |-> 0, s |-> "", kids |-> members]

RECURSIVE StringifyAt(_, _)
RECURSIVE StringifyKids(_, _, _, _)

\* the members of an array or object from index i on, one per line
StringifyKids(kids, isObj, indent, i) ==
    IF i > Len(kids) THEN ""
    ELSE indent
         \o (IF isObj THEN "\"" \o kids[i].k \o "\": " ELSE "")
         \o StringifyAt(kids[i].v, indent)
         \o (IF i < Len(kids) THEN ",\n" ELSE "\n")
         \o StringifyKids(kids, isObj, indent, i + 1)

\* the text of value v when the enclosing line is indented by `indent`
StringifyAt(v, indent) ==
    CASE v.t = "null" -> "null"
      [] v.t = "bool" -> (IF v.b THEN "true" ELSE "false")
      [] v.t = "num" -> ToString(v.n)
      [] v.t = "str" -> "\"" \o v.s \o "\""
      [] v.t = "arr" ->
            IF Len(v.kids) = 0 THEN "[]"
            ELSE "[\n" \o StringifyKids(v.kids, FALSE, indent \o "  ", 1)
                 \o indent \o "]"
      [] v.t = "obj" ->
            IF Len(v.kids) = 0 THEN "{}"
            ELSE "{\n" \o StringifyKids(v.kids, TRUE, indent \o "  ", 1)
                 \o indent \o "}"

JSONStringify(v) == StringifyAt(v, "")

\* values a handler body resolves to (the Okta tools return objects or the
\* parsed API response)
ReturnValues ==
    { JObj(<<KV("success", JBool(TRUE))>>),
      JObj(<<KV("success", JBool(TRUE)), KV("users", JArr(<<>>))>>),
      JObj(<<KV("error", JStr("An error occurred while listing applications."))>>),
      JArr(<<JObj(<<KV("id", JStr("00g1"))>>), JNum(7)>>),
      JNull }

\* messages of the Error a handler body rejects with
ErrorMessages == {"Group ID is required", "HTTP 404: {}", ""}

(***************************************************************************)
(* Handler modules and the registry                                        *)
(***************************************************************************)
Parameters(props, hasReq, req) ==
    [type |-> "object", properties |-> props, hasRequired |-> hasReq, required |-> req]

\* an apiTool export: { function, definition: { type, function: { name,
\* description, parameters } } }
ApiTool(hasDef, hasNm, nm, descr, params) ==
    [path |-> "", hasDefinition |-> hasDef, hasName |-> hasNm, name |-> nm,
     description |-> descr, parameters |-> params]

\* what spreading an undefined apiTool leaves: no definition at all
NoApiTool == ApiTool(FALSE, FALSE, "", "", Parameters({}, FALSE, <<>>))

update_group ==
    ApiTool(TRUE, TRUE, "update_group", "Update a group in Okta.",
            Parameters({"groupId", "name", "description"}, TRUE, <<"groupId", "name">>))

list_policies ==
    ApiTool(TRUE, TRUE, "list_policies", "List policies in Okta.",
            Parameters({"type", "status", "q"}, FALSE, <<>>))

create_user ==
    ApiTool(TRUE, TRUE, "create_user", "Create a new user in Okta.",
            Parameters({"profile", "credentials", "activate", "nextLogin"}, TRUE, <<"profile">>))

\* a module whose definition.function carries no name
anonymous_tool ==
    ApiTool(TRUE, FALSE, "", "A tool without a name.",
            Parameters({"q"}, TRUE, <<>>))

\* the module paths a registry may list
ModulePaths ==
    { "group-manager/update-group.js",     \* loads, exports update_group
      "policy-manager/list-policies.js",   \* loads, exports list_policies
      "lib/absent.js",                     \* listed, file absent: import rejects
      "lib/no-export.js",                  \* loads, exports no apiTool
      "lib/anonymous.js" }                 \* loads, apiTool without a name

\* await import(`../tools/${file}`): does it resolve, and to which apiTool
ImportModule(file) ==
    CASE file = "group-manager/update-group.js" ->
            [loads |-> TRUE, hasApiTool |-> TRUE, apiTool |-> update_group]
      [] file = "policy-manager/list-policies.js" ->
            [loads |-> TRUE, hasApiTool |-> TRUE, apiTool |-> list_policies]
      [] file = "user-manager/create-user.js" ->
            [loads |-> TRUE, hasApiTool |-> TRUE, apiTool |-> create_user]
      [] file = "lib/anonymous.js" ->
            [loads |-> TRUE, hasApiTool |-> TRUE, apiTool |-> anonymous_tool]
      [] file = "lib/no-export.js" ->
            [loads |-> TRUE, hasApiTool |-> FALSE, apiTool |-> NoApiTool]
      [] OTHER ->
            [loads |-> FALSE, hasApiTool |-> FALSE, apiTool |-> NoApiTool]

RECURSIVE SeqsUpTo(_, _)
SeqsUpTo(S, n) ==
    IF n = 0 THEN {<<>>}
    ELSE LET shorter == SeqsUpTo(S, n - 1)
         IN shorter \cup {Append(q, x) : q \in {r \in shorter : Len(r) = n - 1}, x \in S}

Registries == SeqsUpTo(ModulePaths, MaxRegistry)

(***************************************************************************)
(* discoverTools (lib/tools.js)                                            *)
(***************************************************************************)
Pending == [st |-> "pending", tool |-> NoApiTool]

\* the value one toolPaths.map callback resolves to: { ...module.apiTool,
\* path: file } when the import resolved, null when it threw
LoadResult(file) ==
    LET module == ImportModule(file)
    IN IF module.loads
       THEN [st |-> "object", tool |-> [module.apiTool EXCEPT !.path = file]]
       ELSE [st |-> "null", tool |-> NoApiTool]

RECURSIVE FilterBooleanReversed(_)
\* faulty variant of FilterBoolean: the kept results come out last first
FilterBooleanReversed(results) ==
    IF Len(results) = 0 THEN <<>>
    ELSE IF Head(results).st = "object"
         THEN FilterBooleanReversed(Tail(results)) \o <<Head(results).tool>>
         ELSE FilterBooleanReversed(Tail(results))

RECURSIVE FilterBoolean(_)
\* (await Promise.all(toolPromises)).filter(Boolean): objects are truthy,
\* null is dropped, the order is the order of toolPromises
FilterBoolean(results) ==
    IF Len(results) = 0 THEN <<>>
    ELSE IF Head(results).st = "object"
         THEN <<Head(results).tool>> \o FilterBoolean(Tail(results))
         ELSE FilterBoolean(Tail(results))

\* tools.map(t => t.definition.function.name) of the final console.log
\* throws a TypeError when some t has no definition.function
DiscoveredLogThrows(list) == \E i \in 1..Len(list) : ~list[i].hasDefinition

\* the callback of toolPaths.map for entry i runs to its return
Settle(i) ==
    /\ discovery = "loading"
    /\ i \in 1..Len(toolPaths)
    /\ loaded[i].st = "pending"
    /\ loaded' = [loaded EXCEPT ![i] = LoadResult(toolPaths[i])]
    /\ UNCHANGED <<toolPaths, discovery, tools, listing, call>>

LoadSettles(i) ==
    /\ Settle(i)
    /\ UNCHANGED <<sseVars, credVars, http, completion, modeVars>>

\* the same step, with the order of settling kept
ImportSettles(i) ==
    /\ Settle(i)
    /\ completion' = Append(completion, i)
    /\ UNCHANGED <<sseVars, credVars, http, modeVars>>

discoverTools ==
    /\ discovery = "loading"
    /\ \A i \in 1..Len(toolPaths) : loaded[i].st # "pending"
    /\ LET list == FilterBoolean(loaded)
       IN IF DiscoveredLogThrows(list)
          THEN /\ discovery' = "threw"
               /\ tools' = tools
          ELSE /\ discovery' = "done"
               /\ tools' = list
    /\ UNCHANGED <<toolPaths, loaded, listing, call>>
    /\ UNCHANGED <<sseVars, credVars, http, completion, modeVars>>

(***************************************************************************)
(* transformTools and the ListTools request handler (index.js)             *)
(***************************************************************************)
RECURSIVE transformTools(_)
transformTools(list) ==
    IF Len(list) = 0 THEN <<>>
    ELSE LET tool == Head(list)
         IN IF ~tool.hasDefinition
            THEN transformTools(Tail(list))
            ELSE <<[hasName |-> tool.hasName,
                    name |-> tool.name,
                    description |-> tool.description,
                    inputSchema |-> tool.parameters]>>
                 \o transformTools(Tail(list))

ListTools ==
    /\ discovery = "done"
    /\ listing' = [called |-> TRUE, failed |-> FALSE, tools |-> transformTools(tools)]
    /\ UNCHANGED <<toolPaths, loaded, discovery, tools, call>>
    /\ UNCHANGED <<sseVars, credVars, http, completion, modeVars>>

(***************************************************************************)
(* The CallTool request handler (index.js, setupServerHandlers)            *)
(***************************************************************************)
\* names a request may carry: two handlers and one no module declares
ToolNames == {"update_group", "list_policies", "delete_group"}

ArgKeys == {"groupId", "name", "extra"}
\* argument values, written as the JSON literal the client sent
ArgValues == {"null", "false", "0", "''", "'Admins'"}
Falsy == {"null", "false", "0", "''"}
ArgMaps == UNION {[K -> ArgValues] : K \in SUBSET ArgKeys}
NoArguments == [k \in {} |-> "null"]

\* property names every plain object inherits from Object.prototype
ObjectPrototypeKeys == {"constructor", "toString", "hasOwnProperty", "__proto__"}

\* faulty variant of In: a truthiness test of obj[key]
InTruthy(key, obj) == key \in DOMAIN obj /\ obj[key] \notin Falsy

\* the JavaScript `key in obj` for a plain object obj
In(key, obj) == key \in DOMAIN obj \/ key \in ObjectPrototypeKeys

\* request.params.arguments || {}
ArgsOf(hasArguments, arguments) == IF hasArguments THEN arguments ELSE NoArguments

\* faulty variant of find: falls back to the first handler on a miss
findOrFirst(list, toolName) ==
    LET hits == {i \in 1..Len(list) :
                    list[i].hasDefinition /\ list[i].hasName /\ list[i].name = toolName}
    IN IF hits # {} THEN CHOOSE i \in hits : \A j \in hits : i <= j
       ELSE IF Len(list) > 0 THEN 1 ELSE 0

\* tools.find((t) => t.definition?.function?.name === toolName): the index of
\* the first match, 0 for undefined
find(list, toolName) ==
    LET hits == {i \in 1..Len(list) :
                    list[i].hasDefinition /\ list[i].hasName /\ list[i].name = toolName}
    IN IF hits = {} THEN 0 ELSE CHOOSE i \in hits : \A j \in hits : i <= j

\* tool.definition?.function?.parameters?.required || []
requiredParameters(tool) ==
    IF tool.hasDefinition /\ tool.parameters.hasRequired
    THEN tool.parameters.required
    ELSE <<>>

\* faulty variant of MissingParameter: reports the last missing parameter
LastMissingParameter(required, args) ==
    LET missing == {i \in 1..Len(required) : ~In(required[i], args)}
    IN IF missing = {} THEN 0 ELSE CHOOSE i \in missing : \A j \in missing : i >= j

\* the for-of loop over requiredParameters: the index of the parameter it
\* throws for, 0 when it runs to the end
MissingParameter(required, args) ==
    LET missing == {i \in 1..Len(required) : ~In(required[i], args)}
    IN IF missing = {} THEN 0 ELSE CHOOSE i \in missing : \A j \in missing : i <= j

\* faulty variant of FunctionArguments: keeps only the declared properties
DeclaredArguments(tool, args) ==
    [k \in DOMAIN args \cap tool.parameters.properties |-> args[k]]

\* what tool.function is called with
FunctionArguments(tool, args) == args

NoOutcome == [kind |-> "none", code |-> "", message |-> "", content |-> <<>>]
McpError(errorCode, text) ==
    [kind |-> "McpError", code |-> errorCode, message |-> text, content |-> <<>>]

\* the value the handler returns after tool.function resolved with result
SuccessResponse(result) ==
    [kind |-> "result", code |-> "", message |-> "",
     content |-> <<[type |-> "text", text |-> JSONStringify(result)]>>]

\* faulty variant of CaughtError: the handler's error is rethrown as it is
RethrownError(m) == [kind |-> "Error", code |-> "", message |-> m, content |-> <<>>]

\* what the catch block throws for an Error with message m
CaughtError(m) == McpError("InternalError", "API error: " \o m)

IdleCall ==
    [st |-> "idle", name |-> "", hasArguments |-> FALSE, arguments |-> NoArguments,
     tool |-> 0, invoked |-> 0, invokedWith |-> NoArguments,
     settled |-> "none", result |-> JNull, error |-> "", out |-> NoOutcome]

\* a CallTool request arrives: lookup, required-parameter loop, and the call
\* of tool.function up to its await
CallTool(toolName, hasArguments, arguments) ==
    /\ discovery = "done"
    /\ call.st = "idle"
    /\ LET request == [IdleCall EXCEPT !.name = toolName,
                                       !.hasArguments = hasArguments,
                                       !.arguments = arguments]
           t == find(tools, toolName)
           args == ArgsOf(hasArguments, arguments)
       IN IF t = 0
          THEN call' = [request EXCEPT
                          !.st = "rejected",
                          !.out = McpError("MethodNotFound", "Unknown tool: " \o toolName)]
          ELSE LET required == requiredParameters(tools[t])
                   m == MissingParameter(required, args)
               IN IF m # 0
                  THEN call' = [request EXCEPT
                                  !.st = "rejected",
                                  !.tool = t,
                                  !.out = McpError("InvalidParams",
                                             "Missing required parameter: " \o required[m])]
                  ELSE call' = [request EXCEPT
                                  !.st = "running",
                                  !.tool = t,
                                  !.invoked = 1,
                                  !.invokedWith = FunctionArguments(tools[t], args)]
    /\ UNCHANGED <<toolPaths, loaded, discovery, tools, listing>>
    /\ UNCHANGED <<sseVars, credVars, http, completion, modeVars>>

\* await tool.function(args) resumes with a value
HandlerResolves(result) ==
    /\ call.st = "running"
    /\ call' = [call EXCEPT !.st = "resolved",
                            !.settled = "resolved",
                            !.result = result,
                            !.out = SuccessResponse(result)]
    /\ UNCHANGED <<toolPaths, loaded, discovery, tools, listing>>
    /\ UNCHANGED <<sseVars, credVars, http, completion, modeVars>>

\* faulty variant of HandlerRejects: the handler that failed is dropped
\* from the table
HandlerRejectsDropsTool(m) ==
    /\ call.st = "running"
    /\ call' = [call EXCEPT !.st = "rejected",
                            !.settled = "rejected",
                            !.error = m,
                            !.out = CaughtError(m)]
    /\ tools' = SelectSeq(tools, LAMBDA t : t.name # call.name)
    /\ UNCHANGED <<toolPaths, loaded, discovery, listing>>
    /\ UNCHANGED <<sseVars, credVars, http, completion, modeVars>>

\* await tool.function(args) throws an Error with message m
HandlerRejects(m) ==
    /\ call.st = "running"
    /\ call' = [call EXCEPT !.st = "rejected",
                            !.settled = "rejected",
                            !.error = m,
                            !.out = CaughtError(m)]
    /\ UNCHANGED <<toolPaths, loaded, discovery, tools, listing>>
    /\ UNCHANGED <<sseVars, credVars, http, completion, modeVars>>

\* the settled request is answered and dropped: no request is kept
RequestDone ==
    /\ call.st \in {"resolved", "rejected"}
    /\ call' = IdleCall
    /\ UNCHANGED <<toolPaths, loaded, discovery, tools, listing>>
    /\ UNCHANGED <<sseVars, credVars, http, completion, modeVars>>

(***************************************************************************)
(* Multi-session mode: the two lookup tables (index.js, run)               *)
(***************************************************************************)
\* the ids SSEServerTransport assigns, each to one GET /sse
SessionIds == {"session-" \o ToString(i) : i \in 1..MaxSessions}

\* what a client may put in ?sessionId=: an assigned id, an id no session
\* ever had, or the name of a property plain objects inherit
QueryIds == SessionIds \cup {"no-such-session", "constructor"}

\* faulty variant of Get: a key that is no own property yields some
\* registered entry instead of undefined
GetAny(obj, key) ==
    IF key \in DOMAIN obj THEN [kind |-> "own", ref |-> obj[key]]
    ELSE IF DOMAIN obj # {} THEN [kind |-> "own", ref |-> obj[CHOOSE k \in DOMAIN obj : TRUE]]
    ELSE [kind |-> "undefined", ref |-> ""]

\* obj[key] on a plain object: an own property, else a property inherited
\* from Object.prototype (a truthy value that is no transport), else undefined
Get(obj, key) ==
    IF key \in DOMAIN obj THEN [kind |-> "own", ref |-> obj[key]]
    ELSE IF key \in ObjectPrototypeKeys THEN [kind |-> "inherited", ref |-> ""]
    ELSE [kind |-> "undefined", ref |-> ""]

\* obj[key] = value
Put(obj, key, value) == [k \in DOMAIN obj \cup {key} |-> IF k = key THEN value ELSE obj[k]]

\* delete obj[key]
Delete(obj, key) == [k \in DOMAIN obj \ {key} |-> obj[k]]

SERVER_NAME == "okta-mcp-server"

ConnectionEvent(sessionId) ==
    [type |-> "connection", sessionId |-> sessionId,
     server |-> [name |-> SERVER_NAME, version |-> "0.1.0"]]

NoSession ==
    [pc |-> "none",          \* none | connecting | connected | open | failed
     handshake |-> FALSE,    \* server.connect(transport) has resolved
     closed |-> "no",        \* no | closing | closed | closeRejected
     serverClosed |-> FALSE, \* server.close() has resolved
     sent |-> <<>>]          \* the events handed to transport.send

(***************************************************************************)
(* GET /sse (index.js)                                                     *)
(***************************************************************************)
\* faulty variant of SseGet: the confirmation is sent before the handshake
SseGetConfirmsFirst(sessionId) ==
    /\ discovery = "done"
    /\ sessionId \in SessionIds
    /\ sessions[sessionId].pc = "none"
    /\ transports' = Put(transports, sessionId, sessionId)
    /\ servers' = Put(servers, sessionId, sessionId)
    /\ sessions' = [sessions EXCEPT
                      ![sessionId].pc = "connecting",
                      ![sessionId].sent = Append(@, ConnectionEvent(sessionId))]
    /\ UNCHANGED post
    /\ UNCHANGED <<dispatchVars, credVars, http, completion, modeVars>>

\* up to the await of server.connect(transport): new Server, new transport,
\* both registered under transport.sessionId, the close listener installed
SseRoute(sessionId) ==
    /\ discovery = "done"
    /\ sessionId \in SessionIds
    /\ sessions[sessionId].pc = "none"
    /\ transports' = Put(transports, sessionId, sessionId)
    /\ servers' = Put(servers, sessionId, sessionId)
    /\ sessions' = [sessions EXCEPT ![sessionId].pc = "connecting"]
    /\ UNCHANGED post

SseGet(sessionId) ==
    /\ SseRoute(sessionId)
    /\ UNCHANGED <<dispatchVars, credVars, http, completion, modeVars>>

\* the promise of server.connect(transport) resolves
ConnectResolves(sessionId) ==
    /\ sessionId \in SessionIds
    /\ sessions[sessionId].pc = "connecting"
    /\ sessions' = [sessions EXCEPT ![sessionId].pc = "connected",
                                    ![sessionId].handshake = TRUE]
    /\ UNCHANGED <<transports, servers, post>>
    /\ UNCHANGED <<dispatchVars, credVars, http, completion, modeVars>>

\* the promise of server.connect(transport) rejects: the route handler ends
ConnectRejects(sessionId) ==
    /\ sessionId \in SessionIds
    /\ sessions[sessionId].pc = "connecting"
    /\ sessions' = [sessions EXCEPT ![sessionId].pc = "failed"]
    /\ UNCHANGED <<transports, servers, post>>
    /\ UNCHANGED <<dispatchVars, credVars, http, completion, modeVars>>

\* the route handler resumes after the await: transport.send({type: 'connection', ...})
SendConfirmation(sessionId) ==
    /\ sessionId \in SessionIds
    /\ sessions[sessionId].pc = "connected"
    /\ sessions' = [sessions EXCEPT
                      ![sessionId].pc = "open",
                      ![sessionId].sent = Append(@, ConnectionEvent(sessionId))]
    /\ UNCHANGED <<transports, servers, post>>
    /\ UNCHANGED <<dispatchVars, credVars, http, completion, modeVars>>

\* res.on("close"): delete transports[sessionId], then await server.close()
StreamCloses(sessionId) ==
    /\ sessionId \in SessionIds
    /\ sessions[sessionId].pc # "none"
    /\ sessions[sessionId].closed = "no"
    /\ transports' = Delete(transports, sessionId)
    /\ sessions' = [sessions EXCEPT ![sessionId].closed = "closing"]
    /\ UNCHANGED <<servers, post>>
    /\ UNCHANGED <<dispatchVars, credVars, http, completion, modeVars>>

\* server.close() resolved: delete servers[sessionId]
ServerCloseResolves(sessionId) ==
    /\ sessionId \in SessionIds
    /\ sessions[sessionId].closed = "closing"
    /\ servers' = Delete(servers, sessionId)
    /\ sessions' = [sessions EXCEPT ![sessionId].closed = "closed",
                                    ![sessionId].serverClosed = TRUE]
    /\ UNCHANGED <<transports, post>>
    /\ UNCHANGED <<dispatchVars, credVars, http, completion, modeVars>>

\* server.close() rejected: the listener ends before its second delete
ServerCloseRejects(sessionId) ==
    /\ sessionId \in SessionIds
    /\ sessions[sessionId].closed = "closing"
    /\ sessions' = [sessions EXCEPT ![sessionId].closed = "closeRejected"]
    /\ UNCHANGED <<transports, servers, post>>
    /\ UNCHANGED <<dispatchVars, credVars, http, completion, modeVars>>

(***************************************************************************)
(* POST /messages (index.js)                                               *)
(***************************************************************************)
\* the id member of the posted JSON body, written as its JSON literal
BodyIds == {"absent", "0", "''", "7"}

\* req.body?.id || null
EnvelopeId(id) == IF id \in {"absent", "0", "''"} THEN "null" ELSE id

Part(kind, code, message, data, result, id) ==
    [kind |-> kind, code |-> code, message |-> message, data |-> data,
     result |-> result, id |-> id]

InvalidSessionEnvelope(id) ==
    Part("error", -32602, "Invalid session", "No transport/server found for sessionId",
         "", EnvelopeId(id))
InternalErrorEnvelope(id, errorMessage) ==
    Part("error", -32000, "Internal server error", errorMessage, "", EnvelopeId(id))
AcceptedEnvelope(id) == Part("result", 0, "", "", "accepted", EnvelopeId(id))

\* the Express response of one request
NewResponse == [statusCode |-> 200, headersSent |-> FALSE, finished |-> FALSE,
                body |-> <<>>, responses |-> 0]
status(res, code) == [res EXCEPT !.statusCode = code]
respond(res, part) ==
    [res EXCEPT !.headersSent = TRUE, !.finished = TRUE,
                !.body = Append(@, part), !.responses = @ + 1]
json(res, envelope) == respond(res, envelope)
send(res, data) == respond(res, Part("raw", 0, "", data, "", ""))

\* responseWrapper.writeHead(statusCode, headers)
writeHead(res, statusCode) == status(res, statusCode)

\* faulty variant of end: the sentinel is passed through like any payload
endVerbatim(res, id, data) ==
    IF data # "" THEN send(res, data)
    ELSE [res EXCEPT !.headersSent = TRUE, !.finished = TRUE, !.responses = @ + 1]

\* responseWrapper.end(data)
end(res, id, data) ==
    IF data = "Accepted" THEN json(res, AcceptedEnvelope(id))
    ELSE IF data # "" THEN send(res, data)
    ELSE [res EXCEPT !.headersSent = TRUE, !.finished = TRUE, !.responses = @ + 1]

\* responseWrapper.write(data)
write(res, data) ==
    [res EXCEPT !.headersSent = TRUE, !.body = Append(@, Part("chunk", 0, "", data, "", ""))]

\* faulty variant of catch: the 500 envelope is written without the guard
catchUnguarded(res, id, errorMessage) ==
    json(status(res, 500), InternalErrorEnvelope(id, errorMessage))

\* the catch block of the route handler
catch(res, id, errorMessage) ==
    IF ~res.headersSent
    THEN json(status(res, 500), InternalErrorEnvelope(id, errorMessage))
    ELSE res

Op(name, code, data) == [op |-> name, statusCode |-> code, data |-> data]

\* what transport.handlePostMessage(req, responseWrapper, req.body) may do
\* with the wrapper before it resolves or throws
TransportScripts ==
    { [ops |-> <<Op("writeHead", 202, ""), Op("end", 0, "Accepted")>>,
       throws |-> FALSE, message |-> ""],
      [ops |-> <<Op("writeHead", 400, ""), Op("end", 0, "Invalid message")>>,
       throws |-> FALSE, message |-> ""],
      [ops |-> <<Op("writeHead", 204, ""), Op("end", 0, "")>>,
       throws |-> FALSE, message |-> ""],
      [ops |-> <<Op("writeHead", 500, ""), Op("end", 0, "SSE connection not established")>>,
       throws |-> TRUE, message |-> "SSE connection not established"],
      [ops |-> <<Op("writeHead", 200, ""), Op("write", 0, "data: partial")>>,
       throws |-> TRUE, message |-> "write failed"],
      [ops |-> <<Op("writeHead", 400, "")>>,
       throws |-> TRUE, message |-> "failed before the body"],
      [ops |-> <<>>, throws |-> TRUE, message |-> "boom"] }

RECURSIVE RunOps(_, _, _)
RunOps(res, id, ops) ==
    IF Len(ops) = 0 THEN res
    ELSE LET o == Head(ops)
             next == CASE o.op = "writeHead" -> writeHead(res, o.statusCode)
                       [] o.op = "end" -> end(res, id, o.data)
                       [] o.op = "write" -> write(res, o.data)
         IN RunOps(next, id, Tail(ops))

\* the posted JSON-RPC messages: a tools/list request under each id, and a
\* notification, which has no id
Messages ==
    {[id |-> id, method |-> "tools/list"] : id \in BodyIds}
        \cup {[id |-> "absent", method |-> "notifications/initialized"]}

\* the JSON-RPC response a server instance pushes on its session's stream
NoReply == [on |-> "", id |-> "", result |-> <<>>]

\* faulty variant of Reply: the response carries no result
ReplyWithoutResult(sessionId, id, result) == [on |-> sessionId, id |-> id, result |-> <<>>]

Reply(sessionId, id, result) == [on |-> sessionId, id |-> id, result |-> result]

\* the transport read the message and gave it to its server instance
\* (onmessage) before it ended the response with 'Accepted'
Delivered(script) ==
    /\ ~script.throws
    /\ \E i \in 1..Len(script.ops) : script.ops[i] = Op("end", 0, "Accepted")

IdlePost ==
    [pc |-> "idle",          \* idle | handed | done
     sessionId |-> "", id |-> "absent",
     method |-> "",
     sessionWas |-> "",      \* never | closed | live, when the request arrived
     handedTo |-> "",        \* the transport whose handlePostMessage was called
     ops |-> <<>>,           \* what the transport did with responseWrapper
     threw |-> FALSE,        \* the try block threw
     reply |-> NoReply,      \* what the server instance pushed on the stream
     res |-> NewResponse]

\* whether sessionId named a session when the request arrived
SessionWas(sessionId) ==
    IF sessionId \notin SessionIds \/ sessions[sessionId].pc = "none" THEN "never"
    ELSE IF sessions[sessionId].closed # "no" THEN "closed"
    ELSE "live"

\* a POST arrives: the lookups, the 400 branch, and the try block up to the
\* await of transport.handlePostMessage
MessagesRoute(sessionId, id, method) ==
    /\ post.pc = "idle"
    /\ LET transport == Get(transports, sessionId)
           server == Get(servers, sessionId)
           request == [IdlePost EXCEPT !.sessionId = sessionId, !.id = id,
                                       !.method = method,
                                       !.sessionWas = SessionWas(sessionId)]
       IN IF transport.kind = "undefined" \/ server.kind = "undefined"
          THEN post' = [request EXCEPT
                          !.pc = "done",
                          !.res = json(status(NewResponse, 400), InvalidSessionEnvelope(id))]
          ELSE IF transport.kind = "inherited"
          THEN \* transport.handlePostMessage is not a function: a TypeError
               \* inside the try block
               post' = [request EXCEPT
                          !.pc = "done",
                          !.threw = TRUE,
                          !.res = catch(NewResponse, id,
                                        "transport.handlePostMessage is not a function")]
          ELSE post' = [request EXCEPT !.pc = "handed", !.handedTo = transport.ref]
    /\ UNCHANGED <<transports, servers, sessions>>

PostMessages(sessionId, id, method) ==
    /\ MessagesRoute(sessionId, id, method)
    /\ UNCHANGED <<dispatchVars, credVars, http, completion, modeVars>>

\* transport.handlePostMessage settles, having used the wrapper
TransportSettles(script) ==
    /\ post.pc = "handed"
    /\ LET after == RunOps(post.res, post.id, script.ops)
           \* the ListTools handler of the session's server instance answers
           \* a tools/list request through transport.send
           answered == /\ Delivered(script)
                       /\ post.method = "tools/list"
                       /\ post.id # "absent"
                       /\ sessions[post.handedTo].closed = "no"
       IN post' = [post EXCEPT
                     !.pc = "done",
                     !.ops = script.ops,
                     !.threw = script.throws,
                     !.reply = IF answered
                               THEN Reply(post.handedTo, post.id, transformTools(tools))
                               ELSE NoReply,
                     !.res = IF script.throws THEN catch(after, post.id, script.message)
                             ELSE after]
    /\ UNCHANGED <<transports, servers, sessions>>
    /\ UNCHANGED <<dispatchVars, credVars, http, completion, modeVars>>

\* the route handler has returned: the request is over
PostDone ==
    /\ post.pc = "done"
    /\ post' = IdlePost
    /\ UNCHANGED <<transports, servers, sessions>>
    /\ UNCHANGED <<dispatchVars, credVars, http, completion, modeVars>>

(***************************************************************************)
(* The Express application of multi-session mode (index.js, run)           *)
(***************************************************************************)
HttpMethods == {"GET", "POST", "OPTIONS", "DELETE"}
HttpPaths == {"/sse", "/messages", "/favicon.ico"}
\* the request body: none, a JSON document, or text that is no JSON sent
\* as application/json
HttpBodies == {"none", "json", "malformed"}

IdleHttp ==
    [pc |-> "idle",        \* idle | json | cors | route | done
     method |-> "", path |-> "", body |-> "none",
     cors |-> FALSE,       \* the Access-Control-* headers are set on res
     statusCode |-> 0,     \* the status the middleware chain answered with
     handler |-> ""]       \* the route handler that was entered

\* a request arrives at the application
HttpRequest(method, path, body) ==
    /\ discovery = "done"
    /\ http.pc = "idle"
    /\ (method = "GET" /\ path = "/sse") => \E s \in SessionIds : sessions[s].pc = "none"
    /\ (method = "POST" /\ path = "/messages") => post.pc = "idle"
    /\ http' = [IdleHttp EXCEPT !.pc = "json", !.method = method, !.path = path,
                                !.body = body]
    /\ UNCHANGED <<dispatchVars, sseVars, credVars, completion, modeVars>>

\* app.use(express.json()): a body that does not parse goes to the error
\* handler of Express (next(err)), past every later middleware and route
expressJson ==
    /\ http.pc = "json"
    /\ http' = IF http.body = "malformed"
               THEN [http EXCEPT !.pc = "done", !.statusCode = 400]
               ELSE [http EXCEPT !.pc = "cors"]
    /\ UNCHANGED <<dispatchVars, sseVars, credVars, completion, modeVars>>

\* the CORS middleware: four res.setHeader calls, then sendStatus(200) for
\* OPTIONS or next()
corsMiddleware ==
    /\ http.pc = "cors"
    /\ http' = IF http.method = "OPTIONS"
               THEN [http EXCEPT !.pc = "done", !.cors = TRUE, !.statusCode = 200]
               ELSE [http EXCEPT !.pc = "route", !.cors = TRUE]
    /\ UNCHANGED <<dispatchVars, sseVars, credVars, completion, modeVars>>

\* app.get("/sse", ...) is entered
RouteSse(sessionId) ==
    /\ http.pc = "route"
    /\ http.method = "GET" /\ http.path = "/sse"
    /\ SseRoute(sessionId)
    /\ http' = [http EXCEPT !.pc = "done", !.statusCode = 200, !.handler = "GET /sse"]
    /\ UNCHANGED <<dispatchVars, credVars, completion, modeVars>>

\* app.post("/messages", ...) is entered
RouteMessages(sessionId, id, method) ==
    /\ http.pc = "route"
    /\ http.method = "POST" /\ http.path = "/messages"
    /\ (http.body = "none") => (id = "absent" /\ method = "")
    /\ (http.body # "none") => method # ""
    /\ MessagesRoute(sessionId, id, method)
    /\ http' = [http EXCEPT !.pc = "done", !.statusCode = post'.res.statusCode,
                            !.handler = "POST /messages"]
    /\ UNCHANGED <<dispatchVars, credVars, completion, modeVars>>

\* no route matches: Express answers 404
RouteNotFound ==
    /\ http.pc = "route"
    /\ ~(http.method = "GET" /\ http.path = "/sse")
    /\ ~(http.method = "POST" /\ http.path = "/messages")
    /\ http' = [http EXCEPT !.pc = "done", !.statusCode = 404]
    /\ UNCHANGED <<dispatchVars, sseVars, credVars, completion, modeVars>>

\* the middleware chain has returned for this request
HttpDone ==
    /\ http.pc = "done"
    /\ http' = IdleHttp
    /\ UNCHANGED <<dispatchVars, sseVars, credVars, completion, modeVars>>

(***************************************************************************)
(* Credentials (lib/credentials.js, lib/tools.js, index.js)                *)
(***************************************************************************)
\* the values a store may hold; "" is no value (null, undefined, unset)
Domains == {"", "dev-1.okta.com"}
ApiTokens == {"", "00a-token"}

\* the keychain: do keytar calls succeed, and the two passwords
Keychains == [available : BOOLEAN, domain : Domains, apiToken : ApiTokens]
\* ~/.okta-mcp/config.json
NoFile == [exists |-> FALSE, parses |-> FALSE, domain |-> "", apiToken |-> ""]
ConfigFiles ==
    {NoFile, [exists |-> TRUE, parses |-> FALSE, domain |-> "", apiToken |-> ""]}
        \cup [exists : {TRUE}, parses : {TRUE}, domain : Domains, apiToken : ApiTokens]
\* process.env.OKTA_DOMAIN and process.env.OKTA_API_KEY
Environments == [OKTA_DOMAIN : Domains, OKTA_API_KEY : ApiTokens]

Stores == [keychain : Keychains, file : ConfigFiles, env : Environments]

\* the store of a machine on which init has put the credentials in the keychain
KeychainStore ==
    [keychain |-> [available |-> TRUE, domain |-> "dev-1.okta.com", apiToken |-> "00a-token"],
     file |-> NoFile,
     env |-> [OKTA_DOMAIN |-> "", OKTA_API_KEY |-> ""]]

Null == [found |-> FALSE, domain |-> "", apiToken |-> "", storage |-> ""]
Credentials(domain, apiToken, storage) ==
    [found |-> TRUE, domain |-> domain, apiToken |-> apiToken, storage |-> storage]

\* getCredentials(): keychain, then file, then environment, else null
getCredentials(s) ==
    IF s.keychain.available /\ s.keychain.domain # "" /\ s.keychain.apiToken # ""
    THEN Credentials(s.keychain.domain, s.keychain.apiToken, "keychain")
    ELSE IF s.file.exists /\ s.file.parses /\ s.file.domain # "" /\ s.file.apiToken # ""
    THEN Credentials(s.file.domain, s.file.apiToken, "file")
    ELSE IF s.env.OKTA_DOMAIN # "" /\ s.env.OKTA_API_KEY # ""
    THEN Credentials(s.env.OKTA_DOMAIN, s.env.OKTA_API_KEY, "environment")
    ELSE Null

\* the store clearCredentials() leaves: the keychain passwords deleted when
\* keytar answers, the config file unlinked unless unlinkSync throws
Cleared(s, unlinkThrows) ==
    [keychain |-> IF s.keychain.available
                  THEN [s.keychain EXCEPT !.domain = "", !.apiToken = ""]
                  ELSE s.keychain,
     file |-> IF s.file.exists /\ ~unlinkThrows THEN NoFile ELSE s.file,
     env |-> s.env]

NoOp == [name |-> "", result |-> "", before |-> KeychainStore]
Operation(name, result, before) == [name |-> name, result |-> result, before |-> before]

\* index.js run(): loadCredentials() exits the process when getCredentials()
\* returns null
loadCredentials ==
    /\ proc \in {"stopped", "exited"}
    /\ IF getCredentials(store).found
       THEN /\ proc' = "running"
            /\ op' = Operation("loadCredentials", "credentials", store)
       ELSE /\ proc' = "exited"
            /\ op' = Operation("loadCredentials", "process.exit(1)", store)
    /\ UNCHANGED store
    /\ UNCHANGED <<dispatchVars, sseVars, http, completion, modeVars>>

\* lib/tools.js getOktaCredentials(), called by a handler body of the
\* running server
getOktaCredentials ==
    /\ proc = "running"
    /\ op' = Operation("getOktaCredentials",
                       IF getCredentials(store).found THEN "credentials" ELSE "threw",
                       store)
    /\ UNCHANGED <<store, proc>>
    /\ UNCHANGED <<dispatchVars, sseVars, http, completion, modeVars>>

\* clearCredentials(), run by the logout command
clearCredentials(unlinkThrows) ==
    /\ store' = Cleared(store, unlinkThrows)
    /\ op' = Operation("clearCredentials",
                       IF getCredentials(store).found THEN "true" ELSE "false", store)
    /\ UNCHANGED proc
    /\ UNCHANGED <<dispatchVars, sseVars, http, completion, modeVars>>

\* the credentials the init command is given
NewDomains == {"dev-2.okta.com"}
NewApiTokens == {"00b-token"}

\* the keytar.setPassword calls of storeCredentials, in order: domain,
\* token, metadata; 0 is no call
SetPasswordCalls == 1..3

\* the first setPassword call that throws: the first one when keytar does
\* not answer, else the one that fails (0: none does)
FirstFailure(s, failAt) == IF s.keychain.available THEN failAt ELSE 1

\* the store storeCredentials(domain, apiToken) leaves: the passwords set by
\* the calls before the first failure, and the config file written when a
\* call failed, unless writeFileSync throws
Stored(s, domain, apiToken, failAt, writeThrows) ==
    LET f == FirstFailure(s, failAt)
    IN [keychain |-> [s.keychain EXCEPT
                        !.domain = IF f = 0 \/ f > 1 THEN domain ELSE @,
                        !.apiToken = IF f = 0 \/ f > 2 THEN apiToken ELSE @],
        file |-> IF f # 0 /\ ~writeThrows
                 THEN [exists |-> TRUE, parses |-> TRUE,
                       domain |-> domain, apiToken |-> apiToken]
                 ELSE s.file,
        env |-> s.env]

StoreOperation(domain, apiToken, failed, result, before) ==
    [name |-> "storeCredentials", result |-> result, before |-> before,
     domain |-> domain, apiToken |-> apiToken, failed |-> failed]

\* storeCredentials(domain, apiToken), run by the init command
storeCredentials(domain, apiToken, failAt, writeThrows) ==
    /\ store' = Stored(store, domain, apiToken, failAt, writeThrows)
    /\ op' = StoreOperation(domain, apiToken, FirstFailure(store, failAt),
                            IF FirstFailure(store, failAt) = 0 THEN "keychain"
                            ELSE IF writeThrows THEN "threw" ELSE "file",
                            store)
    /\ UNCHANGED proc
    /\ UNCHANGED <<dispatchVars, sseVars, http, completion, modeVars>>

\* the keychain is locked or unlocked
KeychainChanges ==
    /\ store' = [store EXCEPT !.keychain.available = ~@]
    /\ op' = NoOp
    /\ UNCHANGED proc
    /\ UNCHANGED <<dispatchVars, sseVars, http, completion, modeVars>>

(***************************************************************************)
(* The handler body of create_user (tools/user-manager/create-user.js)     *)
(***************************************************************************)
\* the profile argument, written as the JSON literal the client sent
ProfileLiterals ==
    { "null", "{}", "{login:'a@b.com'}",
      "{login:'a@b.com',email:'a@b.com',firstName:'Ada',lastName:'Byron'}",
      "{login:'a@b.com',email:'not-an-email',firstName:'Ada',lastName:'Byron'}" }

NoProfile == [truthy |-> FALSE, login |-> "", email |-> "", firstName |-> "", lastName |-> ""]

\* the value of a profile literal: is it truthy, and its four required
\* fields ("" where the field is absent)
ProfileOf(literal) ==
    CASE literal = "{}" -> [NoProfile EXCEPT !.truthy = TRUE]
      [] literal = "{login:'a@b.com'}" ->
            [NoProfile EXCEPT !.truthy = TRUE, !.login = "a@b.com"]
      [] literal = "{login:'a@b.com',email:'a@b.com',firstName:'Ada',lastName:'Byron'}" ->
            [truthy |-> TRUE, login |-> "a@b.com", email |-> "a@b.com",
             firstName |-> "Ada", lastName |-> "Byron"]
      [] literal = "{login:'a@b.com',email:'not-an-email',firstName:'Ada',lastName:'Byron'}" ->
            [truthy |-> TRUE, login |-> "a@b.com", email |-> "not-an-email",
             firstName |-> "Ada", lastName |-> "Byron"]
      [] OTHER -> [NoProfile EXCEPT !.truthy = literal \notin Falsy]

\* the argument mappings of the create_user requests
CreateUserArgs ==
    UNION {[K -> {"null"}] : K \in SUBSET {"activate", "nextLogin"}}
        \cup {[k \in K \cup {"profile"} |-> IF k = "profile" THEN p ELSE "'changePassword'"] :
                 K \in SUBSET {"nextLogin"}, p \in ProfileLiterals}

\* what the Okta API answers to POST /api/v1/users
FetchOutcomes == {"201", "400 login", "403", "fetch failed"}

\* /^[^\s@]+@[^\s@]+\.[^\s@]+$/.test(email), for the emails of ProfileLiterals
emailRegexTest(email) == email = "a@b.com"

RECURSIVE join(_)
\* fields.join(', ')
join(fields) ==
    IF Len(fields) = 0 THEN ""
    ELSE Head(fields) \o (IF Len(fields) > 1 THEN ", " ELSE "") \o join(Tail(fields))

\* requiredFields.filter(field => !profile[field])
missingFields(profile) ==
    (IF profile.login = "" THEN <<"login">> ELSE <<>>)
        \o (IF profile.email = "" THEN <<"email">> ELSE <<>>)
        \o (IF profile.firstName = "" THEN <<"firstName">> ELSE <<>>)
        \o (IF profile.lastName = "" THEN <<"lastName">> ELSE <<>>)

\* the message of the Error thrown inside the try block, "" when none is
thrownInTry(args, credentials, outcome) ==
    LET profile == IF "profile" \in DOMAIN args THEN ProfileOf(args["profile"]) ELSE NoProfile
    IN IF ~profile.truthy THEN "Profile object is required"
       ELSE IF Len(missingFields(profile)) > 0
       THEN "Missing required profile fields: " \o join(missingFields(profile))
       ELSE IF ~emailRegexTest(profile.email) THEN "Invalid email format"
       ELSE IF ~credentials.found THEN "Okta credentials not found. Run: okta-mcp-server init"
       ELSE CASE outcome = "201" -> ""
              [] outcome = "400 login" ->
                    "HTTP 400: {\"errorCode\":\"E0000001\",\"errorSummary\":\"login\"}"
                        \o " Suggestion: The login/username already exists or is invalid."
                        \o " Try a different login."
              [] outcome = "403" ->
                    "HTTP 403: {\"errorCode\":\"E0000006\"}"
                        \o " Suggestion: Insufficient permissions to create users."
                        \o " Check your API token permissions."
              [] OTHER -> "fetch failed"

\* whether message contains 'Suggestion:', for the messages thrownInTry gives
includesSuggestion(message) ==
    \E outcome \in {"400 login", "403"} :
        message = thrownInTry([profile |-> "{login:'a@b.com',email:'a@b.com',firstName:'Ada',lastName:'Byron'}"],
                              Credentials("dev-1.okta.com", "00a-token", "keychain"),
                              outcome)

\* executeFunction of create_user: the value it resolves to. Every error
\* thrown inside its try block is caught and returned as { error, suggestion }
executeFunction(args, credentials, outcome) ==
    LET message == thrownInTry(args, credentials, outcome)
        profile == ProfileOf(args["profile"])
    IN IF message = ""
       THEN JObj(<<KV("id", JStr("00u1")),
                   KV("status", JStr("ACTIVE")),
                   KV("profile", JObj(<<KV("login", JStr(profile.login)),
                                        KV("email", JStr(profile.email)),
                                        KV("firstName", JStr(profile.firstName)),
                                        KV("lastName", JStr(profile.lastName)),
                                        KV("displayName",
                                           JStr(profile.firstName \o " " \o profile.lastName))>>)),
                   KV("message", JStr("User '" \o profile.login
                                       \o "' created successfully with status 'ACTIVE'"))>>)
       ELSE IF includesSuggestion(message)
       THEN JObj(<<KV("error", JStr("Failed to create user: " \o message))>>)
       ELSE JObj(<<KV("error", JStr("Failed to create user: " \o message)),
                   KV("suggestion",
                      JStr("Check that all required fields are provided and that the login/email doesn't already exist."))>>)

\* the body of create_user runs to its return
CreateUserSettles(outcome) ==
    /\ call.st = "running"
    /\ tools[call.tool].name = "create_user"
    /\ call' = [call EXCEPT
                  !.st = "resolved",
                  !.settled = "resolved",
                  !.result = executeFunction(call.invokedWith, getCredentials(store), outcome),
                  !.out = SuccessResponse(executeFunction(call.invokedWith,
                                                          getCredentials(store), outcome))]
    /\ UNCHANGED <<toolPaths, loaded, discovery, tools, listing>>
    /\ UNCHANGED <<sseVars, credVars, http, completion, modeVars>>

(***************************************************************************)
(* Single-stream mode (index.js, run)                                      *)
(***************************************************************************)
\* the SIGINT signals one process is sent
MaxSignals == 2

NoStdio ==
    [pc |-> "off",         \* off | starting | connecting | connected | connectFailed
     instances |-> 0,      \* how many times new Server(...) ran
     listener |-> FALSE,   \* process.on("SIGINT", ...) has run
     signals |-> 0,        \* the SIGINT signals received
     closing |-> 0,        \* the server.close() calls that have not settled
     closed |-> FALSE,     \* a server.close() has resolved
     exit |-> ""]          \* how the process ended

\* run() enters the else branch: new Server, setupServerHandlers, the SIGINT
\* listener, new StdioServerTransport, up to the await of server.connect
StdioRun ==
    /\ proc = "running"
    /\ stdio.pc = "starting"
    /\ stdio' = [stdio EXCEPT !.pc = "connecting", !.instances = @ + 1,
                              !.listener = TRUE]
    /\ UNCHANGED <<dispatchVars, sseVars, credVars, http, completion, deliveries>>

\* the promise of server.connect(transport) resolves: run() returns
StdioConnectResolves ==
    /\ proc = "running"
    /\ stdio.pc = "connecting"
    /\ stdio' = [stdio EXCEPT !.pc = "connected"]
    /\ UNCHANGED <<dispatchVars, sseVars, credVars, http, completion, deliveries>>

\* the promise of server.connect(transport) rejects: run() rejects and
\* run().catch(console.error) logs the error
StdioConnectRejects ==
    /\ proc = "running"
    /\ stdio.pc = "connecting"
    /\ stdio' = [stdio EXCEPT !.pc = "connectFailed"]
    /\ UNCHANGED <<dispatchVars, sseVars, credVars, http, completion, deliveries>>

\* faulty variant of Sigint: the listener calls server.close() and exits
\* without waiting for it
SigintExitsAtOnce ==
    /\ proc = "running"
    /\ stdio.pc # "off"
    /\ stdio.signals < MaxSignals
    /\ IF stdio.listener
       THEN /\ stdio' = [stdio EXCEPT !.signals = @ + 1, !.closing = @ + 1,
                                      !.exit = "process.exit(0)"]
            /\ proc' = "exited"
       ELSE /\ stdio' = [stdio EXCEPT !.signals = @ + 1, !.exit = "SIGINT"]
            /\ proc' = "exited"
    /\ UNCHANGED <<store, op>>
    /\ UNCHANGED <<dispatchVars, sseVars, http, completion, deliveries>>

\* the process is sent SIGINT: the listener, once installed, calls
\* server.close() and waits for it; before that the signal ends the process
Sigint ==
    /\ proc = "running"
    /\ stdio.pc # "off"
    /\ stdio.signals < MaxSignals
    /\ IF stdio.listener
       THEN /\ stdio' = [stdio EXCEPT !.signals = @ + 1, !.closing = @ + 1]
            /\ proc' = proc
       ELSE /\ stdio' = [stdio EXCEPT !.signals = @ + 1, !.exit = "SIGINT"]
            /\ proc' = "exited"
    /\ UNCHANGED <<store, op>>
    /\ UNCHANGED <<dispatchVars, sseVars, http, completion, deliveries>>

\* a server.close() of the listener resolved: process.exit(0)
StdioCloseResolves ==
    /\ proc = "running"
    /\ stdio.closing > 0
    /\ stdio' = [stdio EXCEPT !.closing = @ - 1, !.closed = TRUE,
                              !.exit = "process.exit(0)"]
    /\ proc' = "exited"
    /\ UNCHANGED <<store, op>>
    /\ UNCHANGED <<dispatchVars, sseVars, http, completion, deliveries>>

\* a server.close() of the listener rejected: the listener ends before
\* process.exit(0)
StdioCloseRejects ==
    /\ proc = "running"
    /\ stdio.closing > 0
    /\ stdio' = [stdio EXCEPT !.closing = @ - 1]
    /\ UNCHANGED <<dispatchVars, sseVars, credVars, http, completion, deliveries>>

\* the one server instance is connected and the process runs
Serving == proc = "running" /\ stdio.pc = "connected"

(***************************************************************************)
(* POST /messages: requests that overlap (index.js)                        *)
(***************************************************************************)
\* the POST requests one run receives
MaxPosts == 3

NoDeliveries ==
    [arrived |-> <<>>,    \* the POSTs in the order they entered the route handler
     handled |-> <<>>,    \* the calls of transport.handlePostMessage, in order
     pending |-> {}]      \* the calls that have not settled

\* faulty variant of StartHandling: the latest message is taken first
StartHandlingFirst(log, entry) == <<entry>> \o log

\* the route handler calls transport.handlePostMessage for the message
StartHandling(log, entry) == Append(log, entry)

\* the n-th POST arrives, tagged sessionId: the lookups, and the call of
\* transport.handlePostMessage when both tables have the session; the
\* route handler then waits at its await while other requests are taken
PostArrives(sessionId) ==
    /\ Len(deliveries.arrived) < MaxPosts
    /\ LET transport == Get(transports, sessionId)
           server == Get(servers, sessionId)
           n == Len(deliveries.arrived) + 1
           handed == transport.kind = "own" /\ server.kind # "undefined"
       IN deliveries' =
             [arrived |-> Append(deliveries.arrived, [n |-> n, sessionId |-> sessionId]),
              handled |-> IF handed
                          THEN StartHandling(deliveries.handled,
                                             [n |-> n, to |-> transport.ref])
                          ELSE deliveries.handled,
              pending |-> IF handed THEN deliveries.pending \cup {n}
                          ELSE deliveries.pending]
    /\ UNCHANGED <<dispatchVars, sseVars, credVars, http, completion, stdio>>

\* transport.handlePostMessage of the n-th POST settles
HandoffSettles(n) ==
    /\ n \in deliveries.pending
    /\ deliveries' = [deliveries EXCEPT !.pending = @ \ {n}]
    /\ UNCHANGED <<dispatchVars, sseVars, credVars, http, completion, stdio>>

(***************************************************************************)
(* Specifications                                                          *)
(***************************************************************************)
\* the registry of a started server whose modules all load
LoadedRegistry == <<"group-manager/update-group.js", "policy-manager/list-policies.js">>

InitDispatch ==
    /\ toolPaths \in Registries
    /\ loaded = [i \in 1..Len(toolPaths) |-> Pending]
    /\ discovery = "loading"
    /\ tools = <<>>
    /\ listing = [called |-> FALSE, failed |-> FALSE, tools |-> <<>>]
    /\ call = IdleCall
    /\ transports = [k \in {} |-> ""]
    /\ servers = [k \in {} |-> ""]
    /\ sessions = [s \in SessionIds |-> NoSession]
    /\ post = IdlePost
    /\ completion = <<>>
    /\ http = IdleHttp
    /\ store = KeychainStore
    /\ proc = "running"
    /\ op = NoOp
    /\ stdio = NoStdio
    /\ deliveries = NoDeliveries

NextDispatch ==
    \/ \E i \in 1..MaxRegistry : LoadSettles(i)
    \/ discoverTools
    \/ ListTools
    \/ \E toolName \in ToolNames, arguments \in ArgMaps : CallTool(toolName, TRUE, arguments)
    \/ \E toolName \in ToolNames : CallTool(toolName, FALSE, NoArguments)
    \/ \E result \in ReturnValues : HandlerResolves(result)
    \/ \E m \in ErrorMessages : HandlerRejects(m)
    \/ RequestDone

SpecDispatch == InitDispatch /\ [][NextDispatch]_vars

\* a server whose registry lists create_user, over every state of the keychain
InitCreateUser ==
    /\ toolPaths = <<"user-manager/create-user.js">>
    /\ loaded = [i \in 1..Len(toolPaths) |-> LoadResult(toolPaths[i])]
    /\ discovery = "done"
    /\ tools = FilterBoolean(loaded)
    /\ listing = [called |-> FALSE, failed |-> FALSE, tools |-> <<>>]
    /\ call = IdleCall
    /\ transports = [k \in {} |-> ""]
    /\ servers = [k \in {} |-> ""]
    /\ sessions = [s \in SessionIds |-> NoSession]
    /\ post = IdlePost
    /\ completion = <<>>
    /\ http = IdleHttp
    /\ store \in {s \in Stores : s.file = NoFile /\ s.env = KeychainStore.env}
    /\ proc = "running"
    /\ op = NoOp
    /\ stdio = NoStdio
    /\ deliveries = NoDeliveries

NextCreateUser ==
    \/ \E arguments \in CreateUserArgs : CallTool("create_user", TRUE, arguments)
    \/ CallTool("create_user", FALSE, NoArguments)
    \/ \E outcome \in FetchOutcomes : CreateUserSettles(outcome)
    \/ RequestDone

SpecCreateUser == InitCreateUser /\ [][NextCreateUser]_vars

\* discovery alone, with the order in which the loads settle
NextDiscovery ==
    \/ \E i \in 1..MaxRegistry : ImportSettles(i)
    \/ discoverTools

SpecDiscovery == InitDispatch /\ [][NextDiscovery]_vars

InitSse ==
    /\ toolPaths = LoadedRegistry
    /\ loaded = [i \in 1..Len(toolPaths) |-> LoadResult(toolPaths[i])]
    /\ discovery = "done"
    /\ tools = FilterBoolean(loaded)
    /\ listing = [called |-> FALSE, failed |-> FALSE, tools |-> <<>>]
    /\ call = IdleCall
    /\ transports = [k \in {} |-> ""]
    /\ servers = [k \in {} |-> ""]
    /\ sessions = [s \in SessionIds |-> NoSession]
    /\ post = IdlePost
    /\ completion = <<>>
    /\ http = IdleHttp
    /\ store = KeychainStore
    /\ proc = "running"
    /\ op = NoOp
    /\ stdio = NoStdio
    /\ deliveries = NoDeliveries

NextSse ==
    \/ \E s \in SessionIds : SseGet(s)
    \/ \E s \in SessionIds : ConnectResolves(s)
    \/ \E s \in SessionIds : ConnectRejects(s)
    \/ \E s \in SessionIds : SendConfirmation(s)
    \/ \E s \in SessionIds : StreamCloses(s)
    \/ \E s \in SessionIds : ServerCloseResolves(s)
    \/ \E s \in SessionIds : ServerCloseRejects(s)
    \/ \E q \in QueryIds, m \in Messages : PostMessages(q, m.id, m.method)
    \/ \E script \in TransportScripts : TransportSettles(script)
    \/ PostDone

SpecSse == InitSse /\ [][NextSse]_vars

\* requests with every subset of the argument keys
ServerArgs == {a \in ArgMaps : \A k \in DOMAIN a : a[k] = "'Admins'"}

\* one started server: listings and calls, while sessions open and close
NextServer ==
    \/ ListTools
    \/ \E toolName \in ToolNames, arguments \in ServerArgs :
          CallTool(toolName, TRUE, arguments)
    \/ \E result \in ReturnValues : HandlerResolves(result)
    \/ \E m \in ErrorMessages : HandlerRejects(m)
    \/ RequestDone
    \/ \E s \in SessionIds : SseGet(s)
    \/ \E s \in SessionIds : ConnectResolves(s)
    \/ \E s \in SessionIds : SendConfirmation(s)
    \/ \E s \in SessionIds : StreamCloses(s)
    \/ \E s \in SessionIds : ServerCloseResolves(s)

SpecServer == InitSse /\ [][NextServer]_vars

\* the messages POSTed through the middleware chain
HttpMessages ==
    {[id |-> "7", method |-> "tools/list"], [id |-> "absent", method |-> ""]}

NextHttp ==
    \/ \E method \in HttpMethods, path \in HttpPaths, body \in HttpBodies :
          HttpRequest(method, path, body)
    \/ expressJson
    \/ corsMiddleware
    \/ \E s \in SessionIds : RouteSse(s)
    \/ \E q \in SessionIds \cup {"no-such-session"}, m \in HttpMessages :
          RouteMessages(q, m.id, m.method)
    \/ RouteNotFound
    \/ HttpDone
    \/ \E script \in TransportScripts : TransportSettles(script)
    \/ PostDone

SpecHttp == InitSse /\ [][NextHttp]_vars

\* the credential stores of a machine, before the server is started
InitCred ==
    /\ toolPaths = LoadedRegistry
    /\ loaded = [i \in 1..Len(toolPaths) |-> LoadResult(toolPaths[i])]
    /\ discovery = "done"
    /\ tools = FilterBoolean(loaded)
    /\ listing = [called |-> FALSE, failed |-> FALSE, tools |-> <<>>]
    /\ call = IdleCall
    /\ transports = [k \in {} |-> ""]
    /\ servers = [k \in {} |-> ""]
    /\ sessions = [s \in SessionIds |-> NoSession]
    /\ post = IdlePost
    /\ completion = <<>>
    /\ http = IdleHttp
    /\ store \in Stores
    /\ proc = "stopped"
    /\ op = NoOp
    /\ stdio = NoStdio
    /\ deliveries = NoDeliveries

NextCred ==
    \/ loadCredentials
    \/ getOktaCredentials
    \/ \E unlinkThrows \in BOOLEAN : clearCredentials(unlinkThrows)
    \/ \E domain \in NewDomains, apiToken \in NewApiTokens,
          failAt \in {0} \cup SetPasswordCalls, writeThrows \in BOOLEAN :
          storeCredentials(domain, apiToken, failAt, writeThrows)
    \/ KeychainChanges

SpecCred == InitCred /\ [][NextCred]_vars

\* the sessions alone: streams open, shake hands and close
NextTeardown ==
    \/ \E s \in SessionIds : SseGet(s)
    \/ \E s \in SessionIds : ConnectResolves(s)
    \/ \E s \in SessionIds : ConnectRejects(s)
    \/ \E s \in SessionIds : SendConfirmation(s)
    \/ \E s \in SessionIds : StreamCloses(s)
    \/ \E s \in SessionIds : ServerCloseResolves(s)
    \/ \E s \in SessionIds : ServerCloseRejects(s)

\* the promise of a server.close() that was called settles: the close
\* listener waiting for it is resumed or ended
CloseSettles ==
    \A s \in SessionIds : WF_vars(ServerCloseResolves(s) \/ ServerCloseRejects(s))

SpecTeardown == InitSse /\ [][NextTeardown]_vars /\ CloseSettles

\* a process started in single-stream mode, its tools discovered
InitStdio ==
    /\ toolPaths = LoadedRegistry
    /\ loaded = [i \in 1..Len(toolPaths) |-> LoadResult(toolPaths[i])]
    /\ discovery = "done"
    /\ tools = FilterBoolean(loaded)
    /\ listing = [called |-> FALSE, failed |-> FALSE, tools |-> <<>>]
    /\ call = IdleCall
    /\ transports = [k \in {} |-> ""]
    /\ servers = [k \in {} |-> ""]
    /\ sessions = [s \in SessionIds |-> NoSession]
    /\ post = IdlePost
    /\ completion = <<>>
    /\ http = IdleHttp
    /\ store = KeychainStore
    /\ proc = "running"
    /\ op = NoOp
    /\ stdio = [NoStdio EXCEPT !.pc = "starting"]
    /\ deliveries = NoDeliveries

NextStdio ==
    \/ StdioRun
    \/ StdioConnectResolves
    \/ StdioConnectRejects
    \/ Sigint
    \/ StdioCloseResolves
    \/ StdioCloseRejects
    \/ Serving /\ ListTools
    \/ Serving /\ \E toolName \in ToolNames, arguments \in ServerArgs :
                     CallTool(toolName, TRUE, arguments)
    \/ Serving /\ \E result \in ReturnValues : HandlerResolves(result)
    \/ Serving /\ \E m \in ErrorMessages : HandlerRejects(m)
    \/ Serving /\ RequestDone

SpecStdio == InitStdio /\ [][NextStdio]_vars

\* POSTs that overlap, while sessions are registered and closed
NextOrder ==
    \/ \E s \in SessionIds : SseGet(s)
    \/ \E s \in SessionIds : StreamCloses(s)
    \/ \E s \in SessionIds : ServerCloseResolves(s)
    \/ \E q \in SessionIds \cup {"no-such-session"} : PostArrives(q)
    \/ \E n \in 1..MaxPosts : HandoffSettles(n)

SpecOrder == InitSse /\ [][NextOrder]_vars

(***************************************************************************)
(* Properties of the CallTool handler                                      *)
(***************************************************************************)
\* the argument mapping of the request being handled
RequestArgs == IF call.hasArguments THEN call.arguments ELSE NoArguments

\* the table entries that carry the requested name
Named == {i \in 1..Len(tools) : tools[i].hasName /\ tools[i].name = call.name}
Handler == CHOOSE i \in Named : \A j \in Named : i <= j
Required == IF tools[Handler].parameters.hasRequired
            THEN tools[Handler].parameters.required ELSE <<>>
\* the required parameters that are no key of the argument mapping
Lacking == {i \in 1..Len(Required) : Required[i] \notin DOMAIN RequestArgs}
FirstLacking == CHOOSE i \in Lacking : \A j \in Lacking : i <= j

\* C1: a request that lacks a required parameter of its handler fails with
\* InvalidParams naming the first missing parameter in schema order, and the
\* handler body is not invoked.
C1_MissingRequiredIsInvalidParams ==
    (call.st # "idle" /\ Named # {} /\ Lacking # {}) =>
        /\ call.st = "rejected"
        /\ call.out = McpError("InvalidParams",
                               "Missing required parameter: " \o Required[FirstLacking])
        /\ call.invoked = 0
        /\ call.settled = "none"

C1_Witness ==
    /\ call.st = "rejected"
    /\ call.name = "update_group"
    /\ DOMAIN RequestArgs = {"extra"}
    /\ call.out.code = "InvalidParams"
    /\ call.out.message = "Missing required parameter: groupId"
    /\ call.invoked = 0

\* C2: a request whose name matches no handler of the table fails with
\* MethodNotFound carrying the name, and no handler body is invoked,
\* whatever the arguments.
C2_UnknownNameIsMethodNotFound ==
    (call.st # "idle" /\ Named = {}) =>
        /\ call.st = "rejected"
        /\ call.out = McpError("MethodNotFound", "Unknown tool: " \o call.name)
        /\ call.invoked = 0
        /\ call.settled = "none"

C2_Witness ==
    /\ call.st = "rejected"
    /\ call.name = "delete_group"
    /\ Len(tools) > 0
    /\ DOMAIN RequestArgs = {"groupId", "name"}
    /\ call.out.code = "MethodNotFound"
    /\ call.out.message = "Unknown tool: delete_group"

\* C3 as stated: when the handler body rejects with message M the request
\* handler resolves to an internal-error response containing M.
C3_RejectionResolves ==
    (call.settled = "rejected") =>
        /\ call.st = "resolved"
        /\ call.out.code = "InternalError"
        /\ call.out.message = "API error: " \o call.error

\* C3 amended: when the handler body rejects with message M the request
\* handler rejects with McpError(InternalError, "API error: " + M); the
\* handler's own error never leaves the request handler.
C3_RejectionBecomesInternalError ==
    (call.settled = "rejected") =>
        /\ call.st = "rejected"
        /\ call.out.kind = "McpError"
        /\ call.out.code = "InternalError"
        /\ call.out.message = "API error: " \o call.error
        /\ call.out.content = <<>>

C3_Witness ==
    /\ call.settled = "rejected"
    /\ call.error = "Group ID is required"
    /\ call.out.message = "API error: Group ID is required"

\* C4: validation tests the presence of keys, not the truth of values: when
\* every required parameter is a key of the argument mapping the handler is
\* invoked, also for null, empty, false and zero values.
C4_PresentKeysPassValidation ==
    (call.st # "idle" /\ Named # {} /\ Lacking = {}) =>
        /\ call.invoked = 1
        /\ call.out.code # "InvalidParams"

C4_Witness ==
    /\ call.st = "running"
    /\ call.name = "update_group"
    /\ DOMAIN RequestArgs = {"groupId", "name"}
    /\ RequestArgs["groupId"] = "null"
    /\ RequestArgs["name"] = "''"
    /\ call.invoked = 1

\* the pretty-printed JSON text of each value a handler returns
ExpectedText(v) ==
    CASE v = JObj(<<KV("success", JBool(TRUE))>>) -> "{\n  \"success\": true\n}"
      [] v = JObj(<<KV("success", JBool(TRUE)), KV("users", JArr(<<>>))>>) ->
            "{\n  \"success\": true,\n  \"users\": []\n}"
      [] v = JObj(<<KV("error", JStr("An error occurred while listing applications."))>>) ->
            "{\n  \"error\": \"An error occurred while listing applications.\"\n}"
      [] v = JArr(<<JObj(<<KV("id", JStr("00g1"))>>), JNum(7)>>) ->
            "[\n  {\n    \"id\": \"00g1\"\n  },\n  7\n]"
      [] v = JNull -> "null"

\* C5: a request that passes lookup and validation invokes the handler body
\* once with the whole argument mapping, and a returned value is answered
\* with exactly one text content item holding its serialization.
C5_FullArgsAndOneTextItem ==
    /\ call.invoked <= 1
    /\ (call.st # "idle" /\ Named # {} /\ Lacking = {}) =>
          /\ call.invoked = 1
          /\ call.invokedWith = RequestArgs
    /\ (call.settled = "resolved") =>
          /\ call.st = "resolved"
          /\ call.out.kind = "result"
          /\ call.out.content = <<[type |-> "text", text |-> ExpectedText(call.result)]>>

C5_Witness ==
    /\ call.st = "resolved"
    /\ call.name = "update_group"
    /\ DOMAIN call.invokedWith = {"groupId", "name", "extra"}
    /\ call.result = JObj(<<KV("success", JBool(TRUE)), KV("users", JArr(<<>>))>>)
    /\ call.out.content[1].text = "{\n  \"success\": true,\n  \"users\": []\n}"

(***************************************************************************)
(* Properties of the tool listing                                          *)
(***************************************************************************)
\* C6: listTools never fails and returns one entry per handler of the
\* table, in table order, each with a non-empty name and the handler's
\* declared parameter schema as inputSchema.
C6_ListingMatchesTable ==
    listing.called =>
        /\ ~listing.failed
        /\ Len(listing.tools) = Len(tools)
        /\ \A i \in 1..Len(listing.tools) :
              /\ listing.tools[i].hasName
              /\ listing.tools[i].name # ""
              /\ listing.tools[i].name = tools[i].name
              /\ listing.tools[i].inputSchema = tools[i].parameters

(***************************************************************************)
(* Properties of the multi-session adapter                                 *)
(***************************************************************************)
\* C7: a POST whose sessionId was never established or belongs to a closed
\* session gets the HTTP 400 "Invalid session" envelope (code -32602) and
\* is handed to no transport.
C7_InvalidSessionIs400 ==
    (post.pc # "idle" /\ post.sessionWas \in {"never", "closed"}) =>
        /\ post.pc = "done"
        /\ post.handedTo = ""
        /\ post.res.statusCode = 400
        /\ post.res.responses = 1
        /\ post.res.body = <<InvalidSessionEnvelope(post.id)>>

\* C8: once the close listener of a session has run, the session is in
\* neither table and its server instance is closed, and a POST that
\* arrived after the stream closed got the 400 envelope.
C8_ClosedSessionIsRemoved ==
    /\ \A s \in SessionIds :
          sessions[s].closed \in {"closed", "closeRejected"} =>
              /\ s \notin DOMAIN transports
              /\ s \notin DOMAIN servers
              /\ sessions[s].serverClosed
    /\ (post.pc # "idle" /\ post.sessionWas = "closed") =>
          /\ post.res.statusCode = 400
          /\ post.res.body = <<InvalidSessionEnvelope(post.id)>>

\* C9: a step of a POST tagged with id b hands the message to b's own
\* transport or to none, and leaves every other session as it was: its
\* handler state, the events sent on its stream, and its table entries.
C9_SessionIsolation ==
    [][ post' # post =>
          /\ post'.handedTo \in {"", post'.sessionId}
          /\ \A a \in SessionIds \ {post'.sessionId} :
                /\ sessions'[a] = sessions[a]
                /\ Get(transports', a) = Get(transports, a)
                /\ Get(servers', a) = Get(servers, a) ]_vars

C9_Witness ==
    /\ post.pc = "handed"
    /\ post.sessionId = "session-2"
    /\ post.handedTo = "session-2"
    /\ sessions["session-1"].pc = "open"
    /\ sessions["session-1"].closed = "no"
    /\ sessions["session-1"].sent = <<ConnectionEvent("session-1")>>
    /\ DOMAIN transports = {"session-1", "session-2"}

\* the confirmation events sent on the stream of session s
Confirmations(s) ==
    {i \in 1..Len(sessions[s].sent) : sessions[s].sent[i].type = "connection"}

\* C10: a session gets at most one connection-confirmation event, carrying
\* its own id and the server identity; the event is sent only after
\* server.connect has resolved, and a session whose GET /sse handler has run
\* to its end has got exactly one.
C10_OneConfirmationAfterHandshake ==
    \A s \in SessionIds :
        /\ Cardinality(Confirmations(s)) <= 1
        /\ \A i \in Confirmations(s) :
              /\ sessions[s].handshake
              /\ sessions[s].sent[i] = ConnectionEvent(s)
        /\ sessions[s].pc = "open" => Cardinality(Confirmations(s)) = 1
        /\ sessions[s].pc \in {"none", "connecting", "connected", "failed"} =>
              Confirmations(s) = {}

C10_Witness ==
    \E s \in SessionIds :
        /\ sessions[s].pc = "open"
        /\ sessions[s].handshake
        /\ sessions[s].sent = <<ConnectionEvent(s)>>

(***************************************************************************)
(* Properties of the POST /messages response                               *)
(***************************************************************************)
\* the operations of the transport that put something on the wire
SinkOps(ops) == {i \in 1..Len(ops) : ops[i].op \in {"end", "write"}}
\* the 500 envelopes in the response of the request
InternalErrors == {i \in 1..Len(post.res.body) : post.res.body[i].code = -32000}

\* C11: when the handoff to the transport throws, the HTTP 500 "Internal
\* server error" envelope is written if and only if the transport had put
\* nothing of a response on the wire; no POST gets two responses.
C11_HeadersSentGuard ==
    /\ post.res.responses <= 1
    /\ Cardinality(InternalErrors) <= 1
    /\ (post.pc = "done" /\ post.threw) =>
          /\ (InternalErrors # {}) <=> (SinkOps(post.ops) = {})
          /\ (InternalErrors # {}) =>
                /\ post.res.statusCode = 500
                /\ post.res.body[Len(post.res.body)].message = "Internal server error"
    /\ (post.pc = "done" /\ ~post.threw) => InternalErrors = {}

C11_Witness ==
    /\ post.pc = "done"
    /\ post.threw
    /\ post.handedTo = "session-1"
    /\ post.ops = <<Op("writeHead", 500, ""), Op("end", 0, "SSE connection not established")>>
    /\ post.res.responses = 1
    /\ post.res.statusCode = 500
    /\ InternalErrors = {}

\* C11, the other branch: nothing was on the wire and the envelope is written
C11_WitnessEnvelope ==
    /\ post.pc = "done"
    /\ post.threw
    /\ post.ops = <<Op("writeHead", 400, "")>>
    /\ post.res.responses = 1
    /\ post.res.statusCode = 500
    /\ InternalErrors = {1}

RECURSIVE ListingText(_)
\* the names of a listing, as text
ListingText(list) ==
    IF Len(list) = 0 THEN ""
    ELSE Head(list).name \o (IF Len(list) > 1 THEN "," ELSE "") \o ListingText(Tail(list))

\* the transport took the message of the request and the stream of the
\* session is open
AcceptedListRequest ==
    /\ post.pc = "done"
    /\ post.method = "tools/list"
    /\ post.id # "absent"
    /\ post.handedTo # ""
    /\ ~post.threw
    /\ \E i \in 1..Len(post.ops) : post.ops[i] = Op("end", 0, "Accepted")
    /\ sessions[post.handedTo].closed = "no"

\* C12 as stated: the response envelope of a POSTed tools/list message has
\* the current listTools() output as its result.
C12_PostResultIsListing ==
    AcceptedListRequest =>
        /\ Len(post.res.body) = 1
        /\ post.res.body[1].kind = "result"
        /\ post.res.body[1].result = ListingText(transformTools(tools))

\* C12 amended: the response envelope of the POST carries the fixed result
\* {status: "accepted"}; the listTools() output is the result of the
\* JSON-RPC response pushed on the event stream of session S, under the id
\* of the message.
C12_ListingArrivesOnStream ==
    /\ AcceptedListRequest =>
          /\ Len(post.res.body) = 1
          /\ post.res.body[1].kind = "result"
          /\ post.res.body[1].result = "accepted"
          /\ post.reply.on = post.sessionId
          /\ post.reply.id = post.id
          /\ post.reply.result = transformTools(tools)
          /\ Len(post.reply.result) = Len(tools)
    /\ post.reply.on \in {"", post.sessionId}

C12_Witness ==
    /\ AcceptedListRequest
    /\ post.sessionId = "session-1"
    /\ post.id = "7"
    /\ sessions["session-1"].pc = "open"
    /\ post.res.statusCode = 202
    /\ post.res.body[1].result = "accepted"
    /\ post.reply.on = "session-1"
    /\ Len(post.reply.result) = 2
    /\ post.reply.result[1].name = "update_group"

\* the status of the last writeHead among ops, 200 when there is none
StatusSet(ops) ==
    LET heads == {i \in 1..Len(ops) : ops[i].op = "writeHead"}
    IN IF heads = {} THEN 200
       ELSE ops[CHOOSE i \in heads : \A j \in heads : i >= j].statusCode

\* C16: of a POST handed to the transport, each end or write of the
\* transport puts one part on the wire, in order: end('Accepted') the
\* JSON-RPC envelope with result {status: "accepted"} and the id the adapter
\* derives from the body, any other non-empty end payload the payload
\* itself, write the chunk itself; the status is the one the transport set.
C16_ResponseSinkAdapter ==
    (post.pc = "done" /\ post.handedTo # "") =>
        LET IsSink(o) == o.op = "write" \/ (o.op = "end" /\ o.data # "")
            sink == SelectSeq(post.ops, IsSink)
        IN /\ Len(post.res.body) >= Len(sink)
           /\ \A i \in 1..Len(sink) :
                 IF sink[i].op = "write"
                 THEN /\ post.res.body[i].kind = "chunk"
                      /\ post.res.body[i].data = sink[i].data
                 ELSE IF sink[i].data = "Accepted"
                 THEN /\ post.res.body[i].kind = "result"
                      /\ post.res.body[i].result = "accepted"
                      /\ post.res.body[i].code = 0
                      /\ post.res.body[i].id \in {post.id, "null"}
                 ELSE /\ post.res.body[i].kind = "raw"
                      /\ post.res.body[i].data = sink[i].data
           /\ SinkOps(post.ops) # {} =>
                 /\ post.res.statusCode = StatusSet(post.ops)
                 /\ Len(post.res.body) = Len(sink)

C16_Witness ==
    /\ post.pc = "done"
    /\ post.handedTo = "session-2"
    /\ post.id = "7"
    /\ post.ops = <<Op("writeHead", 202, ""), Op("end", 0, "Accepted")>>
    /\ post.res.statusCode = 202
    /\ post.res.body = <<[kind |-> "result", code |-> 0, message |-> "", data |-> "",
                          result |-> "accepted", id |-> "7"]>>

\* C16, the pass-through branches: a payload and a chunk reach the client
\* as they are
C16_WitnessPassThrough ==
    /\ post.pc = "done"
    /\ post.handedTo # ""
    /\ post.res.statusCode = 400
    /\ post.res.body[1].kind = "raw"
    /\ post.res.body[1].data = "Invalid message"

(***************************************************************************)
(* Properties of the credential operations                                 *)
(***************************************************************************)
\* the last operation needed credentials and the stores gave none
ConfigurationError ==
    /\ op.name \in {"loadCredentials", "getOktaCredentials"}
    /\ ~getCredentials(op.before).found

\* C18: when the credentials are missing or out of reach, the operation
\* that needs them fails and the server process keeps running: the error is
\* never fatal to the process.
C18_ConfigurationErrorSparesProcess ==
    ConfigurationError =>
        /\ op.result = "threw"
        /\ proc = "running"

\* C19: after clearCredentials no storage location (keychain, file,
\* environment) yields credentials, so that a following getCredentials
\* returns null; and clearCredentials returns true exactly when credentials
\* existed and were cleared, false when none existed.
C19_LogoutClearsEveryStore ==
    (op.name = "clearCredentials") =>
        /\ getCredentials(store) = Null
        /\ (op.result = "true") <=>
              (getCredentials(op.before).found /\ ~getCredentials(store).found)
        /\ (op.result = "false") <=> ~getCredentials(op.before).found

(***************************************************************************)
(* Properties of discovery                                                 *)
(***************************************************************************)
\* the registry entries whose import resolves
Loadable == {i \in 1..Len(toolPaths) : ImportModule(toolPaths[i]).loads}
\* the registry entries that are good: the module loads and exports a
\* definition with a name
GoodEntries ==
    {i \in Loadable : /\ ImportModule(toolPaths[i]).hasApiTool
                      /\ ImportModule(toolPaths[i]).apiTool.hasDefinition
                      /\ ImportModule(toolPaths[i]).apiTool.hasName}

\* C14: whatever entries of the registry are bad (the module fails to load,
\* or loads without a definition with a name), discoverTools does not abort
\* and the list it returns holds every good handler.
C14_DiscoveryToleratesBadModules ==
    /\ discovery # "threw"
    /\ discovery = "done" =>
          \A i \in GoodEntries :
              \E k \in 1..Len(tools) :
                  /\ tools[k].path = toolPaths[i]
                  /\ tools[k].name = ImportModule(toolPaths[i]).apiTool.name

\* C20: every load is pending when discovery starts and the loads settle in
\* any order; the list discoverTools returns holds the loaded modules in
\* the order of the registry, whatever that order was.
C20_RegistryOrder ==
    /\ (completion = <<>> /\ discovery = "loading") =>
          \A i \in 1..Len(toolPaths) : loaded[i].st = "pending"
    /\ discovery = "done" =>
          /\ Len(tools) = Cardinality(Loadable)
          /\ \E f \in [1..Len(tools) -> 1..Len(toolPaths)] :
                /\ \A k \in 1..Len(tools) : f[k] \in Loadable
                /\ \A j, k \in 1..Len(tools) : j < k => f[j] < f[k]
                /\ \A k \in 1..Len(tools) :
                      /\ tools[k].path = toolPaths[f[k]]
                      /\ tools[k].name = ImportModule(toolPaths[f[k]]).apiTool.name

\* the second entry of the registry settled first
C20_Witness ==
    /\ discovery = "done"
    /\ toolPaths = <<"group-manager/update-group.js", "policy-manager/list-policies.js">>
    /\ completion = <<2, 1>>
    /\ Len(tools) = 2
    /\ tools[1].name = "update_group"
    /\ tools[2].name = "list_policies"

(***************************************************************************)
(* Properties of create_user                                               *)
(***************************************************************************)
\* the request callTool("create_user", {profile: {login: "a@b.com"}}) is settled
IncompleteProfileSettled ==
    /\ call.st \in {"resolved", "rejected"}
    /\ call.name = "create_user"
    /\ RequestArgs = [k \in {"profile"} |-> "{login:'a@b.com'}"]

\* C13: callTool("create_user", {profile: {login: "a@b.com"}}) fails with
\* the InternalError protocol error whose message embeds the validation
\* message of the handler, and dispatch goes on.
C13_ValidationIsInternalError ==
    IncompleteProfileSettled =>
        /\ call.st = "rejected"
        /\ call.out.kind = "McpError"
        /\ call.out.code = "InternalError"
        /\ call.out.message =
              "API error: Missing required profile fields: email, firstName, lastName"

(***************************************************************************)
(* Properties of the middleware chain                                      *)
(***************************************************************************)
\* C15: every response of the application carries the permissive
\* cross-origin headers, whatever the method, the path and the outcome, and
\* every OPTIONS request is answered 200 without entering a route handler.
C15_CorsOnEveryResponse ==
    (http.pc = "done") =>
        /\ http.cors
        /\ (http.method = "OPTIONS") =>
              /\ http.statusCode = 200
              /\ http.handler = ""

(***************************************************************************)
(* Properties of the shared handler table                                  *)
(***************************************************************************)
\* C17: after discovery no step changes the handler table, and every
\* listTools call returns what the call before it returned, hence what the
\* first one returned, whatever calls, failures, session opens and session
\* closes lie between them.
C17_ListingIsStable ==
    [][ /\ (discovery = "done") => (tools' = tools /\ discovery' = "done")
        /\ (listing.called /\ listing'.called) => listing'.tools = listing.tools
        /\ listing'.called => listing'.tools = transformTools(tools) ]_vars

\* a listing that followed a failed call and the close of a session
C17_Witness ==
    /\ listing.called
    /\ Len(listing.tools) = 2
    /\ listing.tools[1].name = "update_group"
    /\ listing.tools[2].name = "list_policies"
    /\ call.st = "rejected"
    /\ call.settled = "rejected"
    /\ sessions["session-1"].closed = "closed"
    /\ sessions["session-2"].pc = "open"

(***************************************************************************)
(* Properties of the handler names                                         *)
(***************************************************************************)
\* the entries of the listing that advertise the requested name
Advertised ==
    {k \in 1..Len(transformTools(tools)) :
        /\ transformTools(tools)[k].hasName
        /\ transformTools(tools)[k].name = call.name}

\* C21: in the handler table built by discovery no two handlers carry the
\* same name, and the handler a request is dispatched to is the one and
\* only handler the listing advertises under the requested name.
C21_HandlerNamesUnique ==
    (discovery = "done") =>
        /\ \A i, j \in 1..Len(tools) :
              (tools[i].hasName /\ tools[j].hasName /\ tools[i].name = tools[j].name)
                  => i = j
        /\ (call.st # "idle" /\ call.tool # 0) => Advertised = {call.tool}

\* the same statement for the registries that list no module twice
C21_UniqueForDistinctPaths ==
    (\A i, j \in 1..Len(toolPaths) : toolPaths[i] = toolPaths[j] => i = j)
        => C21_HandlerNamesUnique

(***************************************************************************)
(* Properties of the session lifecycle                                     *)
(***************************************************************************)
\* the close listener of session s has deleted transports[s] and is waiting
\* for server.close()
Closing(s) == sessions[s].closed = "closing"

\* C24: every session id of the transport table is in the server table,
\* and the two tables have the same keys except for the sessions whose
\* close listener is between its two deletes.
C24_ParallelTables ==
    /\ DOMAIN transports \subseteq DOMAIN servers
    /\ DOMAIN servers \ DOMAIN transports \subseteq {s \in SessionIds : Closing(s)}

\* the first half of C24 alone
C24_TransportsHaveServers == DOMAIN transports \subseteq DOMAIN servers

\* C24 where no server.close() has rejected
C24_ParallelUnlessCloseRejected ==
    (\A s \in SessionIds : sessions[s].closed # "closeRejected") => C24_ParallelTables


\* a step of the POST route handler that calls handlePostMessage
Handoff == post.pc = "idle" /\ post'.pc = "handed"

\* C25: no posted message is handed to the transport of a session that is
\* not yet open: a POST tagged with S that arrives after S is registered and
\* before its connection-confirmation event was sent is not handed over.
C25_NoHandoffBeforeOpen ==
    [][ Handoff => sessions[post'.handedTo].pc = "open" ]_vars

\* what the lookups of the route handler do guarantee: the session the
\* message is handed to is registered and its stream has not closed
C25_HandoffToRegistered ==
    [][ Handoff =>
          /\ post'.handedTo = post'.sessionId
          /\ sessions[post'.handedTo].pc # "none"
          /\ sessions[post'.handedTo].closed = "no" ]_vars


\* a message handed to session-1 while its handshake is still awaited
C25_HandedWhileConnecting ==
    /\ post.pc = "handed"
    /\ post.handedTo = "session-1"
    /\ sessions["session-1"].pc = "connecting"
    /\ sessions["session-1"].sent = <<>>


\* the tables do not get back an entry of session s in this step
StaysRemoved(s) ==
    /\ s \notin DOMAIN transports => s \notin DOMAIN transports'
    /\ s \notin DOMAIN servers => s \notin DOMAIN servers'

\* C27: CLOSED is terminal: once the stream of a session has closed the
\* session stays closed, its id does not come back into either table, and
\* nothing is pushed on its stream, the connection confirmation included,
\* also when the stream closed while the handshake was awaited.
C27_ClosedIsTerminal ==
    [][ \A s \in SessionIds :
          sessions[s].closed # "no" =>
              /\ sessions'[s].closed # "no"
              /\ StaysRemoved(s)
              /\ sessions'[s].sent = sessions[s].sent
              /\ post'.reply # post.reply => post'.reply.on # s ]_vars

\* C27 without the events: a closed session stays closed and out of the
\* tables it was removed from
C27_ClosedStaysRemoved ==
    [][ \A s \in SessionIds :
          sessions[s].closed # "no" =>
              /\ sessions'[s].closed # "no"
              /\ StaysRemoved(s)
              /\ post'.reply # post.reply => post'.reply.on # s ]_vars

\* the confirmation of session-1 was sent after its stream had closed
C27_ConfirmationAfterClose ==
    /\ sessions["session-1"].closed = "closed"
    /\ "session-1" \notin DOMAIN transports
    /\ sessions["session-1"].pc = "open"
    /\ sessions["session-1"].sent = <<ConnectionEvent("session-1")>>


\* a server entry left by a rejected close is removed by no step
C26_LeftForGood ==
    [][ \A s \in SessionIds :
          sessions[s].closed = "closeRejected" =>
              /\ sessions'[s].closed = "closeRejected"
              /\ s \in DOMAIN servers' ]_vars

(***************************************************************************)
(* Properties of the POST /messages response, continued                    *)
(***************************************************************************)
\* the response of the request is one of the three the route can give
ResponseKinds ==
    {k \in {"400 envelope", "transport", "500 envelope"} :
        CASE k = "400 envelope" ->
                /\ post.handedTo = "" /\ ~post.threw
                /\ post.res.body = <<InvalidSessionEnvelope(post.id)>>
          [] k = "500 envelope" -> InternalErrors # {}
          [] OTHER -> post.handedTo # "" /\ SinkOps(post.ops) # {} }

\* C28: every POST /messages whose route handler has returned has got
\* exactly one complete HTTP response: the 400 envelope, the response of
\* the transport through the adapter, or the 500 envelope; also when the
\* handoff threw after part of the response was written and when the
\* session closed while the POST was in flight.
C28_OneCompleteResponse ==
    (post.pc = "done") =>
        /\ post.res.finished
        /\ post.res.responses = 1
        /\ Cardinality(ResponseKinds) = 1

\* C28 for the requests whose transport did not throw after a write
C28_CompleteUnlessPartialWrite ==
    (post.pc = "done"
        /\ ~(post.threw /\ \E i \in 1..Len(post.ops) : post.ops[i].op = "write"))
        => /\ post.res.finished
           /\ post.res.responses = 1
           /\ Cardinality(ResponseKinds) = 1

\* the handoff threw after a chunk was written: the response was begun and
\* is never ended
C28_ResponseLeftOpen ==
    /\ post.pc = "done"
    /\ post.threw
    /\ post.res.headersSent
    /\ ~post.res.finished
    /\ post.res.responses = 0


\* the JSON-RPC envelopes among the parts of the response
Envelopes == {i \in 1..Len(post.res.body) : post.res.body[i].kind \in {"error", "result"}}

\* C29: each envelope of a POST /messages response (400 invalid session,
\* accepted, 500 internal error) carries the id of the posted message,
\* whatever its value, 0 and the empty string included, and null only when
\* the message has no id.
C29_EnvelopeCarriesRequestId ==
    \A i \in Envelopes :
        post.res.body[i].id = (IF post.id = "absent" THEN "null" ELSE post.id)

\* C29 for the ids that are truthy in JavaScript, and for no id
C29_TruthyIdsAreEchoed ==
    (post.id \notin {"0", "''"}) => C29_EnvelopeCarriesRequestId

\* the message with id 0 is accepted and the envelope carries null
C29_ZeroBecomesNull ==
    /\ post.pc = "done"
    /\ post.id = "0"
    /\ post.res.statusCode = 202
    /\ post.res.body = <<AcceptedEnvelope("0")>>
    /\ post.res.body[1].id = "null"


\* session s is in neither table
Removed(s) == s \notin DOMAIN transports /\ s \notin DOMAIN servers

\* C26: after the stream of a session has closed the session is eventually
\* in neither table, whether server.close() resolves or rejects.
C26_TeardownCompletes ==
    \A s \in SessionIds : (sessions[s].closed # "no") ~> Removed(s)

\* C26 for the closes that resolve: the teardown ends with the session
\* removed unless server.close() rejected
C26_TeardownCompletesOrCloseRejected ==
    \A s \in SessionIds :
        (sessions[s].closed # "no") ~> (Removed(s) \/ sessions[s].closed = "closeRejected")

\* server.close() rejected and the server entry of the session is left
C26_ServerEntryLeft ==
    /\ sessions["session-1"].closed = "closeRejected"
    /\ "session-1" \notin DOMAIN transports
    /\ "session-1" \in DOMAIN servers


(***************************************************************************)
(* Properties of the credential stores                                     *)
(***************************************************************************)
\* the last operation was a storeCredentials that did not throw
StoreCompleted == op.name = "storeCredentials" /\ op.result # "threw"

\* C30: whenever storeCredentials(d, t) completes without throwing,
\* whatever was stored before and whichever keychain calls failed, the next
\* getCredentials returns domain d and apiToken t.
C30_StoreGetRoundTrip ==
    StoreCompleted =>
        /\ getCredentials(store).found
        /\ getCredentials(store).domain = op.domain
        /\ getCredentials(store).apiToken = op.apiToken

\* C30 where the keychain took both passwords, or does not answer at all
C30_RoundTripUnlessPartialKeychain ==
    (StoreCompleted /\ (op.failed \in {0, 3} \/ ~op.before.keychain.available))
        => /\ getCredentials(store).found
           /\ getCredentials(store).domain = op.domain
           /\ getCredentials(store).apiToken = op.apiToken

\* the second setPassword failed: the keychain holds the new domain with the
\* old token, and getCredentials returns that pair
C30_MixedPair ==
    /\ StoreCompleted
    /\ op.result = "file"
    /\ op.failed = 2
    /\ store.file.domain = "dev-2.okta.com"
    /\ store.file.apiToken = "00b-token"
    /\ getCredentials(store) = Credentials("dev-2.okta.com", "00a-token", "keychain")


(***************************************************************************)
(* Properties of the order of handling                                     *)
(***************************************************************************)
\* the place of the n-th POST in the order of the handlePostMessage calls,
\* 0 when it was not handed to a transport
HandledAt(n) ==
    LET at == {i \in 1..Len(deliveries.handled) : deliveries.handled[i].n = n}
    IN IF at = {} THEN 0 ELSE CHOOSE i \in at : TRUE

\* C22: within one session the posted messages are handled in the order
\* they were delivered: of two messages handed to the server instance of
\* session S, the one delivered first is the one whose handling starts
\* first, and each is handed to the session it is tagged with, once.
C22_HandledInArrivalOrder ==
    /\ \A i \in 1..Len(deliveries.handled) :
          /\ deliveries.arrived[deliveries.handled[i].n].sessionId = deliveries.handled[i].to
          /\ \A j \in 1..Len(deliveries.handled) :
                deliveries.handled[i].n = deliveries.handled[j].n => i = j
    /\ \A m1, m2 \in 1..Len(deliveries.arrived) :
          (/\ m1 < m2
           /\ deliveries.arrived[m1].sessionId = deliveries.arrived[m2].sessionId
           /\ HandledAt(m1) # 0
           /\ HandledAt(m2) # 0) => HandledAt(m1) < HandledAt(m2)
    /\ deliveries.pending \subseteq {deliveries.handled[i].n : i \in 1..Len(deliveries.handled)}

\* three messages for session-1 overlap, and the second has settled while
\* the first and the third are still with the transport
C22_Witness ==
    /\ Len(deliveries.arrived) = 3
    /\ \A m \in 1..3 : deliveries.arrived[m].sessionId = "session-1"
    /\ deliveries.handled = <<[n |-> 1, to |-> "session-1"], [n |-> 2, to |-> "session-1"],
                              [n |-> 3, to |-> "session-1"]>>
    /\ deliveries.pending = {1, 3}

(***************************************************************************)
(* Properties of single-stream mode                                        *)
(***************************************************************************)
\* C23: single-stream mode has one server instance for the life of the
\* process, never a second one, and the process that was sent SIGINT exits
\* only after server.close() has completed: the instance is closed first.
C23_OrderlyShutdown ==
    /\ stdio.instances <= 1
    /\ stdio.pc \in {"connecting", "connected", "connectFailed"} => stdio.instances = 1
    /\ stdio.closed => (stdio.listener /\ stdio.signals > 0)
    /\ (proc = "exited" /\ stdio.listener) =>
          /\ stdio.signals > 0
          /\ stdio.closed
          /\ stdio.exit = "process.exit(0)"
    /\ (proc = "running") => ~stdio.closed

\* the server had answered a listing, was interrupted twice, and the
\* process exited when the first close resolved
C23_Witness ==
    /\ proc = "exited"
    /\ stdio.exit = "process.exit(0)"
    /\ stdio.instances = 1
    /\ stdio.pc = "connected"
    /\ stdio.signals = 2
    /\ stdio.closed
    /\ listing.called

====
